---- MODULE Spec2Model ----
(***************************************************************************)
(* Model of src/renderFarm.py: the Modal VFX render farm operator.         *)
(*                                                                         *)
(*   render_frame        the remote worker: open the prepared blend file,  *)
(*                       redirect every File Output node to the scratch    *)
(*                       directory, render, collect, restore, return       *)
(*   execute             the operator: checks, prepare_blend_file, single  *)
(*                       call or map fan-out, reconciliation of results    *)
(*   _process_rendered_files   the reconciler                              *)
(*   AssetTracker        the sqlite-backed path -> hash store              *)
(*                                                                         *)
(* A path is a sequence of tokens: "/" (the separator), "#" (the frame     *)
(* placeholder), a decimal digit, or an opaque chunk of characters that    *)
(* holds none of these.  Two paths are equal as strings iff they are equal *)
(* as token sequences.                                                     *)
(***************************************************************************)
EXTENDS Integers, Sequences, FiniteSets, TLC

\* ---------------------------------------------------------------- bounds
MaxFrame == 3
MaxContainers == 2
MaxNodes == 2
MaxSlots == 1
MaxFiles == 2
MaxOps == 3

Frames == 1..MaxFrame

\* ----------------------------------------------------------------- paths
Digit == <<"0", "1", "2", "3", "4", "5", "6", "7", "8", "9">>

RECURSIVE Digits(_)
Digits(n) == IF n < 10 THEN <<Digit[n + 1]>>
             ELSE Digits(n \div 10) \o <<Digit[(n % 10) + 1]>>

RECURSIVE Zeros(_)
Zeros(k) == IF k <= 0 THEN <<>> ELSE <<"0">> \o Zeros(k - 1)

\* format(n, "0{w}d"): zero-padded to at least w digits
ZeroPad(n, w) == Zeros(w - Len(Digits(n))) \o Digits(n)

\* f"{frame:04d}"
Fmt04(frame) == ZeroPad(frame, 4)

RECURSIVE Concat(_)
Concat(ss) == IF ss = <<>> THEN <<>> ELSE Head(ss) \o Concat(Tail(ss))

\* str.replace('#', rep): every '#' character is replaced by rep
StrReplaceHash(s, rep) ==
    Concat([i \in 1..Len(s) |-> IF s[i] = "#" THEN rep ELSE <<s[i]>>])

\* os.path.join(a, b) on posix
PathJoin(a, b) ==
    IF b # <<>> /\ Head(b) = "/" THEN b
    ELSE IF a = <<>> \/ a[Len(a)] = "/" THEN a \o b
    ELSE a \o <<"/">> \o b

\* index of the last "/" of p, 0 when there is none
LastSep(p) ==
    LET seps == {i \in 1..Len(p) : p[i] = "/"}
    IN IF seps = {} THEN 0 ELSE CHOOSE i \in seps : \A j \in seps : j <= i

\* os.path.basename(p)
Basename(p) == SubSeq(p, LastSep(p) + 1, Len(p))

\* ---------------------------------------------------------- output graph
\* render_frame's scratch directory, "/renders/temp"
temp_output_dir == <<"/", "renders", "/", "temp">>

\* bpy.path.abspath("//") joined with "modal_render_output"
fallback_dir == PathJoin(<<"/", "proj">>, <<"modal_render_output">>)

\* slot path templates of the compositor's File Output nodes
MainTemplate == <<"main", ".", "#", "#", "#", "#", ".exr">>
DataTemplate == <<"data", ".", "#", "#", "#", "#", ".exr">>
ShotTemplate == <<"shot", "#">>

Slots == { [path |-> MainTemplate, format |-> "EXR16"],
           [path |-> DataTemplate, format |-> "EXR32"],
           [path |-> ShotTemplate, format |-> "EXR16"] }

BasePaths == { <<"/", "out", "/", "main">>, <<"/", "out", "/", "data">> }

SeqsUpTo(S, n) == UNION { [1..k -> S] : k \in 0..n }

\* a File Output node: base_path and its file_slots
Nodes == [base_path : BasePaths, file_slots : SeqsUpTo(Slots, MaxSlots)]

\* an output graph: what get_file_output_nodes() returns, in order
Graphs == SeqsUpTo(Nodes, MaxNodes)

\* the spec's example graph: node main (slot main.####.exr), node data
\* (slot data.####.exr)
MainNode == [base_path |-> <<"/", "out", "/", "main">>,
             file_slots |-> << [path |-> MainTemplate, format |-> "EXR16"] >>]
DataNode == [base_path |-> <<"/", "out", "/", "data">>,
             file_slots |-> << [path |-> DataTemplate, format |-> "EXR32"] >>]
ShotNode == [base_path |-> <<"/", "out", "/", "data">>,
             file_slots |-> << [path |-> ShotTemplate, format |-> "EXR16"] >>]

\* a slot path with a subdirectory; its basename after substitution is that
\* of ShotTemplate
DirTemplate == <<"old", "/", "shot", "#">>

\* nodes of one or two slots whose substituted paths share a basename
TieNodes ==
    [base_path : BasePaths,
     file_slots : { << [path |-> DirTemplate, format |-> "EXR16"],
                       [path |-> ShotTemplate, format |-> "EXR32"] >>,
                    << [path |-> ShotTemplate, format |-> "EXR32"],
                       [path |-> DirTemplate, format |-> "EXR16"] >>,
                    << [path |-> ShotTemplate, format |-> "EXR16"] >> }]

\* graphs in which the basename of one file is that of several slots
TieGraphs == SeqsUpTo(TieNodes, MaxNodes)

\* the graphs the whole-operator specification starts from
ExecGraphs == { <<>>, <<MainNode, DataNode>>, <<ShotNode>> }

\* The render engine (bpy.ops.render.render, an external collaborator) names
\* the file of a slot by replacing the run of '#' of its path with the frame
\* number zero-padded to the length of the run, or by appending the 4-digit
\* frame number when the path has no '#'.
EngineFileName(template, frame) ==
    LET hs == {i \in 1..Len(template) : template[i] = "#"}
    IN IF hs = {} THEN template \o ZeroPad(frame, 4)
       ELSE LET lo == CHOOSE i \in hs : \A j \in hs : i <= j
                hi == CHOOSE i \in hs : \A j \in hs : j <= i
            IN SubSeq(template, 1, lo - 1) \o ZeroPad(frame, hi - lo + 1)
               \o SubSeq(template, hi + 1, Len(template))

\* --------------------------------------------------------- render_frame
\* lines 165-188: the redirect loop from node k on; op is original_paths,
\* keyed by node_index (0-based)
RECURSIVE RedirectFrom(_, _, _)
RedirectFrom(nodes, k, op) ==
    IF k > Len(nodes) THEN [nodes |-> nodes, original_paths |-> op]
    ELSE RedirectFrom(
           [nodes EXCEPT ![k].base_path = temp_output_dir],
           k + 1,
           op @@ ((k - 1) :>
                  [base_path |-> nodes[k].base_path,
                   file_slots |->
                     [j \in 1..Len(nodes[k].file_slots) |->
                        [path |-> nodes[k].file_slots[j].path,
                         format |-> nodes[k].file_slots[j].format]]]))

\* a redirect loop that sets every base_path before it captures the nodes
RedirectThenCapture(nodes) ==
    RedirectFrom([k \in 1..Len(nodes) |->
                    [nodes[k] EXCEPT !.base_path = temp_output_dir]],
                 1, <<>>)

Redirect(nodes) == RedirectFrom(nodes, 1, <<>>)

\* lines 205-207: the slots of one node get their captured path back
RestoreSlots(slots, saved) ==
    [j \in 1..Len(slots) |->
       IF j - 1 < Len(saved) THEN [slots[j] EXCEPT !.path = saved[j].path]
       ELSE slots[j]]

\* lines 202-207: the restore loop from node k on
RECURSIVE RestoreFrom(_, _, _)
RestoreFrom(nodes, k, op) ==
    IF k > Len(nodes) THEN nodes
    ELSE IF (k - 1) \in DOMAIN op
         THEN RestoreFrom(
                [nodes EXCEPT ![k] =
                   [base_path |-> op[k - 1].base_path,
                    file_slots |-> RestoreSlots(nodes[k].file_slots,
                                                op[k - 1].file_slots)]],
                k + 1, op)
         ELSE RestoreFrom(nodes, k + 1, op)

\* a restore loop that skips the first node
RestoreSkippingFirst(nodes, op) == RestoreFrom(nodes, 2, op)

Restore(nodes, op) == RestoreFrom(nodes, 1, op)

\* a file of the scratch volume: its path relative to temp_output_dir and
\* its content, identified by the <<frame, node_index, slot_index>> that
\* wrote it
WriteFile(dir, rel, data) ==
    {x \in dir : x.rel # rel} \cup {[rel |-> rel, data |-> data]}

\* line 191: the engine writes one file per slot of every node under the
\* node's base_path; slot j of node k from (k, j) on
RECURSIVE RenderFrom(_, _, _, _, _)
RenderFrom(dir, nodes, frame, k, j) ==
    IF k > Len(nodes) THEN dir
    ELSE IF j > Len(nodes[k].file_slots)
         THEN RenderFrom(dir, nodes, frame, k + 1, 1)
         ELSE LET name == EngineFileName(nodes[k].file_slots[j].path, frame)
                  out == IF nodes[k].base_path = temp_output_dir
                         THEN WriteFile(dir, name, <<frame, k - 1, j - 1>>)
                         ELSE dir
              IN RenderFrom(out, nodes, frame, k, j + 1)

RenderInto(dir, nodes, frame) == RenderFrom(dir, nodes, frame, 1, 1)

\* lines 194-199: os.walk over the scratch directory; the keys of
\* rendered_files (the value of a key is PathJoin(temp_output_dir, key))
Collect(dir) == {x.rel : x \in dir}

\* ----------------------------------------------- _process_rendered_files
\* line 445: slot_info['path'].replace('#', f"{frame:04d}")
SlotPath(path, frame) == StrReplaceHash(path, Fmt04(frame))

\* lines 443-453: the slots of one node from slot j on; <<>> is None
RECURSIVE MatchSlots(_, _, _, _)
MatchSlots(rel_path, frame, node_info, j) ==
    IF j > Len(node_info.file_slots) THEN <<>>
    ELSE LET slot_path == SlotPath(node_info.file_slots[j].path, frame)
             potential_path == PathJoin(node_info.base_path, slot_path)
         IN IF Basename(rel_path) = Basename(slot_path) THEN potential_path
            ELSE MatchSlots(rel_path, frame, node_info, j + 1)

\* a node loop that goes on after a match: the last matching node wins
RECURSIVE MatchNodesLastWins(_, _, _, _)
MatchNodesLastWins(rel_path, frame, op, node_index) ==
    IF node_index \notin DOMAIN op THEN <<>>
    ELSE LET later == MatchNodesLastWins(rel_path, frame, op, node_index + 1)
         IN IF later # <<>> THEN later
            ELSE MatchSlots(rel_path, frame, op[node_index], 1)

\* lines 440-456: the nodes in the order of original_paths.items(), from
\* node_index on; the loop goes on while original_path is falsy
RECURSIVE MatchNodes(_, _, _, _)
MatchNodes(rel_path, frame, op, node_index) ==
    IF node_index \notin DOMAIN op THEN <<>>
    ELSE LET found == MatchSlots(rel_path, frame, op[node_index], 1)
         IN IF found # <<>> THEN found
            ELSE MatchNodes(rel_path, frame, op, node_index + 1)

\* lines 459-466: the fallback when no slot matched
Fallback(rel_path, op) ==
    IF DOMAIN op # {} /\ 0 \in DOMAIN op
    THEN PathJoin(op[0].base_path, rel_path)
    ELSE PathJoin(fallback_dir, rel_path)

\* lines 437-466: original_path of one produced file
Resolve(rel_path, frame, op) ==
    LET matched == MatchNodes(rel_path, frame, op, 0)
    IN IF matched # <<>> THEN matched ELSE Fallback(rel_path, op)

\* Path(file_path).read_bytes(): what the scratch volume holds at rel now
\* (result['files'] carries paths, not bytes; the renders volume is taken
\* to be readable under the same path where execute runs)
ReadBytes(dir, rel) == (CHOOSE x \in dir : x.rel = rel).data

\* lines 469-473: the local file at original_path is overwritten
WriteLocal(local, original_path, rel, data) ==
    {x \in local : x.path # original_path}
      \cup {[path |-> original_path, from |-> rel, data |-> data]}

\* lines 435-473 for one file
ProcessFile(local, dir, rel_path, frame, op) ==
    WriteLocal(local, Resolve(rel_path, frame, op), rel_path,
               ReadBytes(dir, rel_path))

\* The loop of lines 435-478 without upload.  files.items() comes in
\* os.walk's order, which the file system decides; a final path keeps the
\* file written to it last, so every final path keeps any one of the files
\* resolved to it.
RECURSIVE ProcessTargets(_, _, _, _, _, _)
ProcessTargets(targets, files, local, dir, frame, op) ==
    IF targets = {} THEN {local}
    ELSE LET t == CHOOSE x \in targets : TRUE
         IN UNION { ProcessTargets(targets \ {t}, files,
                                   ProcessFile(local, dir, f, frame, op),
                                   dir, frame, op)
                    : f \in {g \in files : Resolve(g, frame, op) = t} }

\* _process_rendered_files(result, upload_to_dropbox, dropbox_folder): the
\* outcomes [local, raised].  Inside the method the name upload_to_dropbox
\* is the boolean parameter (line 425), so line 478 calls a bool: with the
\* flag set, the first file is written and the call raises TypeError.
ProcessRenderedFiles(result, upload_flag, local, dir) ==
    IF upload_flag /\ result.files # {}
    THEN { [local |-> ProcessFile(local, dir, f, result.frame,
                                  result.original_paths),
            raised |-> TRUE] : f \in result.files }
    ELSE { [local |-> l, raised |-> FALSE] :
           l \in ProcessTargets(
                   {Resolve(f, result.frame, result.original_paths)
                      : f \in result.files},
                   result.files, local, dir, result.frame,
                   result.original_paths) }

\* ------------------------------------------------------------- execute
RenderTypes == {"FRAME", "ANIMATION", "RANGE"}

\* range(start, end + 1) as a list (line 403)
FrameRange(a, b) == [k \in 1..(IF b >= a THEN b - a + 1 ELSE 0) |-> a + k - 1]

Units == 1..MaxFrame

VARIABLES
    pc,              \* where execute stands
    graph,           \* File Output nodes of the local scene
    volume,          \* the prepared blend file on the assets volume
    prepared,        \* prepare_blend_file has returned volume_blend_path
    render_type, frame, start, end,   \* execute's resolved request
    max_containers,  \* self.max_containers as passed to map
    upload,          \* self.upload_to_dropbox
    args,            \* the frames dispatched, one unit of work each
    st,              \* per unit: where its render_frame invocation stands
    scene,           \* per unit: the nodes of the worker's scene instance
    original_paths,  \* per unit: the snapshot render_frame captured
    rendered_files,  \* per unit: the keys of rendered_files
    scratch,         \* the files under /renders/temp on the renders volume
    results,         \* what remote()/map() returned to execute
    idx,             \* the result the reconcile loop is at
    processed,       \* frames of the results handed to the reconciler
    local,           \* the local files written by the reconciler
    report,          \* self.report calls, in order
    conn,            \* the AssetTracker connection of execute
    assets,          \* AssetTracker: the rows of table assets
    log,             \* AssetTracker: the update_asset calls made, in order
    lookup           \* AssetTracker: the last get_asset_hash call and result

execVars == <<pc, graph, volume, prepared, render_type, frame, start, end,
              max_containers, upload, args, results, idx, processed, local,
              report, conn>>
workerVars == <<st, scene, original_paths, rendered_files, scratch>>
trackerVars == <<assets, log, lookup>>
vars == <<execVars, workerVars, trackerVars>>

NoUnits == [i \in Units |-> "none"]
NoScenes == [i \in Units |-> <<>>]
NoFiles == [i \in Units |-> {}]

TrackerIdle == assets = {} /\ log = <<>> /\ lookup = <<>>

\* the state before execute is invoked
Init ==
    /\ pc = "idle"
    /\ graph \in ExecGraphs
    /\ volume = <<>>
    /\ prepared = FALSE
    /\ render_type = "FRAME" /\ frame = 0 /\ start = 0 /\ end = 0
    /\ max_containers = 1
    /\ upload = FALSE
    /\ args = <<>>
    /\ st = NoUnits
    /\ scene = NoScenes
    /\ original_paths = NoScenes
    /\ rendered_files = NoFiles
    /\ scratch = {}
    /\ results = <<>>
    /\ idx = 1
    /\ processed = <<>>
    /\ local = {}
    /\ report = <<>>
    /\ conn = "none"
    /\ TrackerIdle

\* lines 419-423: the except branch of execute
Cancel(msg) ==
    /\ report' = Append(report, <<"ERROR", msg>>)
    /\ conn' = "closed"
    /\ pc' = "cancelled"

\* lines 339-372: the checks, the saved copy, the tracker
ExecuteStart ==
    /\ pc = "idle"
    /\ \E saved \in BOOLEAN :
         IF graph = <<>>
         THEN /\ report' = Append(report, <<"ERROR", "no File Output nodes">>)
              /\ pc' = "cancelled"
              /\ conn' = conn
         ELSE IF ~saved
         THEN /\ report' = Append(report, <<"ERROR", "save your file">>)
              /\ pc' = "cancelled"
              /\ conn' = conn
         ELSE /\ report' = Append(report, <<"INFO", "starting">>)
              /\ conn' = "open"
              /\ pc' = "prepare"
    /\ UNCHANGED <<graph, volume, prepared, render_type, frame, start, end,
                   max_containers, upload, args, results, idx, processed,
                   local>>
    /\ UNCHANGED <<workerVars, trackerVars>>

\* a prepare step whose failure is swallowed: execute goes on to dispatch
PrepareIgnoringFailure ==
    /\ pc = "prepare"
    /\ \E ok \in BOOLEAN :
         /\ volume' = graph
         /\ prepared' = ok
         /\ pc' = "resolve"
         /\ report' = IF ok THEN report
                      ELSE Append(report, <<"ERROR", "prepare failed">>)
         /\ conn' = conn
    /\ UNCHANGED <<graph, render_type, frame, start, end, max_containers,
                   upload, args, results, idx, processed, local>>
    /\ UNCHANGED <<workerVars, trackerVars>>

\* line 378 and prepare_blend_file (lines 223-248): the copy of the saved
\* file lands on the volume, is unpacked and saved again; a failure, before
\* or after the copy, reaches the except branch
PrepareBlendFile ==
    /\ pc = "prepare"
    /\ \E ok \in BOOLEAN :
         IF ok
         THEN /\ volume' = graph
              /\ prepared' = TRUE
              /\ pc' = "resolve"
              /\ UNCHANGED <<report, conn>>
         ELSE /\ volume' \in {volume, graph}
              /\ prepared' = FALSE
              /\ Cancel("prepare failed")
    /\ UNCHANGED <<graph, render_type, frame, start, end, max_containers,
                   upload, args, results, idx, processed, local>>
    /\ UNCHANGED <<workerVars, trackerVars>>

Queue(frames) == [i \in Units |-> IF i <= Len(frames) THEN "queued" ELSE "none"]

\* lines 380-386: FRAME, the one remote call for frame_current
DispatchSingle ==
    /\ pc = "resolve"
    /\ \E frame_current \in Frames, up \in BOOLEAN :
         /\ render_type' = "FRAME"
         /\ frame' = frame_current
         /\ args' = <<frame_current>>
         /\ st' = Queue(<<frame_current>>)
         /\ upload' = up
    /\ pc' = "single"
    /\ UNCHANGED <<graph, volume, prepared, start, end, max_containers,
                   results, idx, processed, local, report, conn>>
    /\ UNCHANGED <<scene, original_paths, rendered_files, scratch>>
    /\ UNCHANGED trackerVars

\* lines 393-406: ANIMATION (scene.frame_start, scene.frame_end) or RANGE
\* (self.start_frame, self.end_frame), the args list and the map call
DispatchMap ==
    /\ pc = "resolve"
    /\ \E rt \in {"ANIMATION", "RANGE"}, a \in Frames, b \in Frames,
          mc \in 1..MaxContainers, up \in BOOLEAN :
         /\ render_type' = rt
         /\ start' = a
         /\ end' = b
         /\ args' = FrameRange(a, b)
         /\ st' = Queue(FrameRange(a, b))
         /\ max_containers' = mc
         /\ upload' = up
    /\ pc' = "map"
    /\ UNCHANGED <<graph, volume, prepared, frame, results, idx, processed,
                   local, report, conn>>
    /\ UNCHANGED <<scene, original_paths, rendered_files, scratch>>
    /\ UNCHANGED trackerVars

InFlight == {i \in Units : st[i] \in {"redirected", "rendered"}}

\* map(args, max_concurrency=self.max_containers) (line 406) takes the
\* units in the order of args and starts the next one while fewer than
\* max_concurrency are in flight; remote() (line 383) starts its one call
MayStart(i) ==
    /\ st[i] = "queued"
    /\ \A j \in 1..(i - 1) : st[j] # "queued"
    /\ pc \in {"single", "map"}
    /\ pc = "map" => Cardinality(InFlight) < max_containers

\* an invocation that redirects a scene instance shared with the invocations
\* started before it, instead of opening the blend file itself
StartFrameOnSharedScene(i) ==
    /\ MayStart(i)
    /\ LET opened == {j \in Units : scene[j] # <<>>}
           shared == IF opened = {} THEN volume
                     ELSE scene[CHOOSE j \in opened : TRUE]
           r == Redirect(shared)
       IN /\ scene' = [scene EXCEPT ![i] = r.nodes]
          /\ original_paths' = [original_paths EXCEPT ![i] = r.original_paths]
    /\ st' = [st EXCEPT ![i] = "redirected"]
    /\ UNCHANGED <<rendered_files, scratch>>
    /\ UNCHANGED <<execVars, trackerVars>>

\* render_frame lines 150-188: the worker opens the prepared blend file,
\* its own instance of the scene, and runs the redirect loop
StartFrame(i) ==
    /\ MayStart(i)
    /\ LET r == Redirect(volume)
       IN /\ scene' = [scene EXCEPT ![i] = r.nodes]
          /\ original_paths' = [original_paths EXCEPT ![i] = r.original_paths]
    /\ st' = [st EXCEPT ![i] = "redirected"]
    /\ UNCHANGED <<rendered_files, scratch>>
    /\ UNCHANGED <<execVars, trackerVars>>

\* line 191, the render step writes its files
RenderOk(i) ==
    /\ pc \in {"single", "map"}
    /\ st[i] = "redirected"
    /\ scratch' = RenderInto(scratch, scene[i], args[i])
    /\ st' = [st EXCEPT ![i] = "rendered"]
    /\ UNCHANGED <<scene, original_paths, rendered_files>>
    /\ UNCHANGED <<execVars, trackerVars>>

\* line 191, the render step raises: the exception leaves render_frame
RenderFail(i) ==
    /\ pc \in {"single", "map"}
    /\ st[i] = "redirected"
    /\ st' = [st EXCEPT ![i] = "failed"]
    /\ UNCHANGED <<scene, original_paths, rendered_files, scratch>>
    /\ UNCHANGED <<execVars, trackerVars>>

\* lines 193-214: collect, the restore loop, return
FinishFrame(i) ==
    /\ pc \in {"single", "map"}
    /\ st[i] = "rendered"
    /\ rendered_files' = [rendered_files EXCEPT ![i] = Collect(scratch)]
    /\ scene' = [scene EXCEPT ![i] = Restore(scene[i], original_paths[i])]
    /\ st' = [st EXCEPT ![i] = "returned"]
    /\ UNCHANGED <<original_paths, scratch>>
    /\ UNCHANGED <<execVars, trackerVars>>

\* the dict render_frame returns (lines 210-214)
ResultOf(i) == [frame |-> args[i], files |-> rendered_files[i],
                original_paths |-> original_paths[i]]

\* line 383: remote() returns the result of the one call
SingleReturn ==
    /\ pc = "single"
    /\ st[1] = "returned"
    /\ results' = <<ResultOf(1)>>
    /\ idx' = 1
    /\ pc' = "reconcile"
    /\ UNCHANGED <<graph, volume, prepared, render_type, frame, start, end,
                   max_containers, upload, args, processed, local, report,
                   conn>>
    /\ UNCHANGED <<workerVars, trackerVars>>

\* line 383: remote() raises what render_frame raised
SingleRaise ==
    /\ pc = "single"
    /\ st[1] = "failed"
    /\ Cancel("render failed")
    /\ UNCHANGED <<graph, volume, prepared, render_type, frame, start, end,
                   max_containers, upload, args, results, idx, processed,
                   local>>
    /\ UNCHANGED <<workerVars, trackerVars>>

\* line 406: list(map(...)) holds every unit's result, in the order of args
MapReturn ==
    /\ pc = "map"
    /\ \A i \in 1..Len(args) : st[i] = "returned"
    /\ results' = [i \in 1..Len(args) |-> ResultOf(i)]
    /\ idx' = 1
    /\ pc' = "reconcile"
    /\ UNCHANGED <<graph, volume, prepared, render_type, frame, start, end,
                   max_containers, upload, args, processed, local, report,
                   conn>>
    /\ UNCHANGED <<workerVars, trackerVars>>

\* line 406: a unit raised, so list(map(...)) raises and results is never
\* bound; leaving the session drops the units still in flight, and the
\* queued units are never started
MapRaise ==
    /\ pc = "map"
    /\ \E i \in 1..Len(args) : st[i] = "failed"
    /\ st' = [i \in Units |-> IF i \in InFlight THEN "abandoned" ELSE st[i]]
    /\ Cancel("render failed")
    /\ UNCHANGED <<graph, volume, prepared, render_type, frame, start, end,
                   max_containers, upload, args, results, idx, processed,
                   local>>
    /\ UNCHANGED <<scene, original_paths, rendered_files, scratch>>
    /\ UNCHANGED trackerVars

\* lines 389 and 409-410: one result goes through _process_rendered_files;
\* what it raises reaches the except branch
ProcessResult ==
    /\ pc = "reconcile"
    /\ idx <= Len(results)
    /\ processed' = Append(processed, results[idx].frame)
    /\ \E out \in ProcessRenderedFiles(results[idx], upload, local, scratch) :
         /\ local' = out.local
         /\ IF out.raised
            THEN /\ Cancel("upload_to_dropbox is not callable")
                 /\ idx' = idx
            ELSE /\ idx' = idx + 1
                 /\ UNCHANGED <<pc, report, conn>>
    /\ UNCHANGED <<graph, volume, prepared, render_type, frame, start, end,
                   max_containers, upload, args, results>>
    /\ UNCHANGED <<workerVars, trackerVars>>

\* lines 391 and 412-417: the last report, the tracker is closed, FINISHED
ExecuteFinish ==
    /\ pc = "reconcile"
    /\ idx > Len(results)
    /\ report' = Append(report,
                        <<"INFO", IF render_type = "FRAME"
                                  THEN "frame saved" ELSE "all frames saved">>)
    /\ conn' = "closed"
    /\ pc' = "finished"
    /\ UNCHANGED <<graph, volume, prepared, render_type, frame, start, end,
                   max_containers, upload, args, results, idx, processed,
                   local>>
    /\ UNCHANGED <<workerVars, trackerVars>>

Next ==
    \/ ExecuteStart
    \/ PrepareBlendFile
    \/ DispatchSingle
    \/ DispatchMap
    \/ \E i \in Units : StartFrame(i)
    \/ \E i \in Units : RenderOk(i)
    \/ \E i \in Units : RenderFail(i)
    \/ \E i \in Units : FinishFrame(i)
    \/ SingleReturn
    \/ SingleRaise
    \/ MapReturn
    \/ MapRaise
    \/ ProcessResult
    \/ ExecuteFinish

Spec == Init /\ [][Next]_vars

\* FairSpec: execute runs on; no step that can be taken is put off forever
FairSpec == Spec /\ WF_vars(Next)

\* ------------------------------------------- one render_frame invocation
\* The state in which execute has just issued the remote call of one frame,
\* for every output graph within the bounds.
RenderFrameInit ==
    /\ pc = "single"
    /\ graph \in Graphs \ {<<>>}
    /\ volume = graph
    /\ prepared = TRUE
    /\ render_type = "FRAME" /\ start = 0 /\ end = 0
    /\ frame \in Frames
    /\ args = <<frame>>
    /\ st = Queue(args)
    /\ max_containers = 1
    /\ upload = FALSE
    /\ scene = NoScenes
    /\ original_paths = NoScenes
    /\ rendered_files = NoFiles
    /\ scratch = {}
    /\ results = <<>>
    /\ idx = 1
    /\ processed = <<>>
    /\ local = {}
    /\ report = << <<"INFO", "starting">> >>
    /\ conn = "open"
    /\ TrackerIdle

RenderFrameNext ==
    \/ \E i \in Units : StartFrame(i)
    \/ \E i \in Units : RenderOk(i)
    \/ \E i \in Units : RenderFail(i)
    \/ \E i \in Units : FinishFrame(i)

RenderFrameSpec == RenderFrameInit /\ [][RenderFrameNext]_vars

\* the base path and the slot paths of every node of a scene
PathsOf(nodes) ==
    [k \in 1..Len(nodes) |->
       [base_path |-> nodes[k].base_path,
        slot_paths |-> [j \in 1..Len(nodes[k].file_slots) |->
                          nodes[k].file_slots[j].path]]]

\* C1: round trip of redirect and restore.  When the render step completed
\* and render_frame has returned, every node's base_path and every slot's
\* path of the worker's scene equal the values they had before the redirect
\* loop, those of the blend file the worker opened.
C1_RoundTrip ==
    \A i \in Units :
      st[i] = "returned" => PathsOf(scene[i]) = PathsOf(volume)

\* C1 witness: an invocation on a graph of two nodes, the second with a
\* slot, has returned after its redirect and render
C1_Witness ==
    \E i \in Units :
      /\ st[i] = "returned"
      /\ Len(volume) = 2
      /\ Len(volume[2].file_slots) >= 1
      /\ volume[1].base_path # volume[2].base_path
      /\ rendered_files[i] # {}

\* C5: restore on all exit paths.  No render_frame invocation that has
\* ended, by returning or by the render step raising, leaves a node's base
\* path at the scratch directory.
C5_RestoreOnAllExits ==
    \A i \in Units :
      st[i] \in {"returned", "failed"} =>
        \A k \in 1..Len(scene[i]) : scene[i][k].base_path # temp_output_dir

\* -------------------------------------------------- claims on execute
Ended == pc \in {"finished", "cancelled"}

\* the remote call or the map call has been issued
WasDispatched == prepared /\ (frame # 0 \/ start # 0)

\* render_frame was invoked for unit i
Started(i) == st[i] \notin {"none", "queued"}

Handed == {processed[n] : n \in 1..Len(processed)}

\* C2: partial-failure isolation.  When a multi-frame submission in which
\* the render of a frame failed has ended, no sibling frame was cancelled
\* or left unstarted, and the result of every frame that rendered was
\* returned and handed to reconciliation.
C2_PartialFailureIsolation ==
    (Ended /\ render_type # "FRAME" /\ \E i \in Units : st[i] = "failed")
      => /\ \A i \in 1..Len(args) : st[i] \in {"returned", "failed"}
         /\ \A i \in 1..Len(args) :
              st[i] = "returned" =>
                /\ \E n \in 1..Len(results) : results[n].frame = args[i]
                /\ args[i] \in Handed

\* the frame list the request stands for
ExpectedFrames == IF render_type = "FRAME" THEN {frame} ELSE start..end

\* C3: frame-list resolution.  Only frames of the resolved list are
\* rendered, none twice, and none is handed to reconciliation twice; when a
\* dispatched submission has ended, render_frame was called for every
\* frame of the list (FRAME: the current frame; RANGE and ANIMATION: every
\* integer from start to end) and the result of every frame that rendered
\* was handed to reconciliation.
C3_FrameListResolution ==
    /\ \A i \in Units :
         Started(i) =>
           /\ args[i] \in ExpectedFrames
           /\ \A j \in Units : (Started(j) /\ args[j] = args[i]) => j = i
    /\ \A n, m \in 1..Len(processed) :
         /\ processed[n] \in ExpectedFrames
         /\ processed[n] = processed[m] => n = m
    /\ (Ended /\ WasDispatched) =>
         /\ \A f \in ExpectedFrames :
              \E i \in 1..Len(args) : args[i] = f /\ Started(i)
         /\ \A i \in 1..Len(args) : st[i] = "returned" => args[i] \in Handed

\* C4: bounded concurrency of the fan-out.  At most max_containers
\* invocations are in flight at any time, and every queued frame is
\* eventually started.
C4_BoundedConcurrency ==
    /\ [](pc = "map" => Cardinality(InFlight) <= max_containers)
    /\ (\E i \in Units : st[i] = "queued")
         ~> (\A i \in Units : st[i] # "queued")

PrepareFailed ==
    \E n \in 1..Len(report) : report[n] = <<"ERROR", "prepare failed">>

\* C10: preparation precedes all dispatch and its failure is fatal.  No
\* render_frame invocation is dispatched, and nothing is reconciled, unless
\* prepare_blend_file has returned; once it has failed, the operator is
\* CANCELLED, no invocation was dispatched and no file was reconciled.
C10_PrepareBeforeDispatch ==
    /\ ((\E i \in Units : st[i] # "none") \/ args # <<>>
          \/ processed # <<>> \/ local # {}) => prepared
    /\ PrepareFailed =>
         /\ pc = "cancelled"
         /\ ~prepared
         /\ \A i \in Units : st[i] = "none"
         /\ processed = <<>> /\ local = {}

\* C10 witness: prepare_blend_file has failed and execute has ended
C10_Witness == PrepareFailed /\ pc = "cancelled" /\ conn = "closed"

\* ------------------------------------------------------ the reconciler
\* frame numbers and produced files the reconciler is applied to
ReconFrames == {3, 7, 9999}

ReconFileNames(f) ==
    { EngineFileName(MainTemplate, f), EngineFileName(DataTemplate, f),
      EngineFileName(ShotTemplate, f),
      StrReplaceHash(ShotTemplate, Fmt04(f)),
      <<"old", "/">> \o StrReplaceHash(ShotTemplate, Fmt04(f)),
      <<"stray", ".png">> }

FileSets(f) ==
    {fset \in SUBSET ReconFileNames(f) : Cardinality(fset) <= MaxFiles}

\* The state in which remote() has returned one result to execute: any
\* frame, any snapshot of the given graphs, any produced files.
ReconcileInitOver(graphs) ==
    /\ pc = "reconcile"
    /\ graph \in graphs
    /\ volume = graph
    /\ prepared = TRUE
    /\ render_type = "FRAME" /\ start = 0 /\ end = 0
    /\ frame \in ReconFrames
    /\ args = <<frame>>
    /\ st = [i \in Units |-> IF i = 1 THEN "returned" ELSE "none"]
    /\ max_containers = 1
    /\ upload \in BOOLEAN
    /\ scene = [i \in Units |-> IF i = 1 THEN graph ELSE <<>>]
    /\ original_paths =
         [i \in Units |-> IF i = 1 THEN Redirect(graph).original_paths
                          ELSE <<>>]
    /\ \E fset \in FileSets(frame) :
         /\ rendered_files = [i \in Units |-> IF i = 1 THEN fset ELSE {}]
         /\ scratch = {[rel |-> x, data |-> <<frame, 0, 0>>] : x \in fset}
    /\ results = <<ResultOf(1)>>
    /\ idx = 1
    /\ processed = <<>>
    /\ local = {}
    /\ report = << <<"INFO", "starting">> >>
    /\ conn = "open"
    /\ TrackerIdle

\* any snapshot within the bounds
ReconcileInit == ReconcileInitOver(Graphs)

ReconcileNext == ProcessResult \/ ExecuteFinish

ReconcileSpec == ReconcileInit /\ [][ReconcileNext]_vars

\* the reconciler on the snapshots of the tie graphs
TieBreakInit == ReconcileInitOver(TieGraphs)

TieBreakSpec == TieBreakInit /\ [][ReconcileNext]_vars

HasPlaceholder(template) == \E i \in 1..Len(template) : template[i] = "#"

\* the template with its run of '#' replaced, once, by the 4-digit
\* zero-padded frame number
SubstituteRun(template, f) ==
    LET hs == {i \in 1..Len(template) : template[i] = "#"}
        lo == CHOOSE i \in hs : \A j \in hs : i <= j
        hi == CHOOSE i \in hs : \A j \in hs : j <= i
    IN IF hs = {} THEN template
       ELSE SubSeq(template, 1, lo - 1) \o Fmt04(f)
            \o SubSeq(template, hi + 1, Len(template))

\* the results that went through _process_rendered_files
Reconciled == {n \in 1..Len(results) : results[n].frame \in Handed}

\* C6: placeholder substitution.  For every result the reconciler has
\* processed, with a frame number in 1..9999, and every slot template with
\* a placeholder, the substituted slot path is the template with its run of
\* '#' replaced once by the 4-digit zero-padded frame number.
C6_PlaceholderSubstitution ==
    \A n \in Reconciled :
      LET r == results[n]
      IN r.frame \in 1..9999 =>
           \A k \in DOMAIN r.original_paths :
             \A j \in 1..Len(r.original_paths[k].file_slots) :
               LET t == r.original_paths[k].file_slots[j].path
               IN HasPlaceholder(t) =>
                    SlotPath(t, r.frame) = SubstituteRun(t, r.frame)

\* the (node, slot) pairs whose template, after frame substitution, has the
\* basename of the produced file
SlotsNamed(rel, r) ==
    {ks \in {<<k, j>> : k \in DOMAIN r.original_paths, j \in 1..MaxSlots + 1} :
       /\ ks[2] <= Len(r.original_paths[ks[1]].file_slots)
       /\ Basename(rel) =
            Basename(SubstituteRun(
                       r.original_paths[ks[1]].file_slots[ks[2]].path,
                       r.frame))}

\* C7: slot-matched reconciliation.  When the reconciler has gone through
\* a result, every produced file whose basename is that of a slot's
\* template after frame substitution is stored at join(base_path of that
\* slot's node, substituted slot path); main.0003.exr of node main and
\* data.0003.exr of node data are the instance of the spec.
C7_SlotMatchedReconciliation ==
    pc = "finished" =>
      \A n \in Reconciled :
        \A rel \in results[n].files :
          SlotsNamed(rel, results[n]) # {} =>
            \E ks \in SlotsNamed(rel, results[n]) :
              \E x \in local :
                /\ Basename(x.from) = Basename(rel)
                /\ x.path =
                     PathJoin(results[n].original_paths[ks[1]].base_path,
                              SubstituteRun(
                                results[n].original_paths[ks[1]]
                                  .file_slots[ks[2]].path,
                                results[n].frame))

\* C8: fallback placement.  When execute has ended, every produced file of
\* a result handed to the reconciler whose basename matches no slot of the
\* snapshot is stored at join(first node's base_path, relative path) when
\* the snapshot has a node, and at join(fallback directory, relative path)
\* when it has none: no produced file is dropped.
C8_FallbackPlacement ==
    Ended =>
      \A n \in Reconciled :
        \A rel \in results[n].files :
          ( /\ SlotsNamed(rel, results[n]) = {}
            /\ MatchNodes(rel, results[n].frame,
                          results[n].original_paths, 0) = <<>> )
          => \E x \in local :
               /\ x.from = rel
               /\ x.path =
                    IF DOMAIN results[n].original_paths # {}
                    THEN PathJoin(results[n].original_paths[0].base_path, rel)
                    ELSE PathJoin(fallback_dir, rel)

\* ------------------------------------------------------- AssetTracker
AssetPaths == {"a.png", "b.abc"}
AssetHashes == {"h1", "h2"}
AssetTimes == {10, 20}

\* INSERT without OR REPLACE into a table that lost its primary key
InsertRow(rows, path, file_hash, modified_time) ==
    rows \cup {[path |-> path, hash |-> file_hash,
                last_modified |-> modified_time]}

\* line 86: INSERT OR REPLACE into a table keyed by path (line 72): the
\* row of the same path is deleted, the new row inserted
InsertOrReplace(rows, path, file_hash, modified_time) ==
    {r \in rows : r.path # path}
      \cup {[path |-> path, hash |-> file_hash,
             last_modified |-> modified_time]}

\* lines 80-82: SELECT hash WHERE path = ?, fetchone, None when no row
SelectHash(rows, path) ==
    IF \E r \in rows : r.path = path
    THEN (CHOOSE r \in rows : r.path = path).hash
    ELSE "None"

\* the state after AssetTracker(db_path) on a new database (lines 59-77)
TrackerInit ==
    /\ conn = "open"
    /\ assets = {}
    /\ log = <<>>
    /\ lookup = <<>>
    /\ pc = "idle"
    /\ graph = <<>>
    /\ volume = <<>>
    /\ prepared = FALSE
    /\ render_type = "FRAME" /\ frame = 0 /\ start = 0 /\ end = 0
    /\ max_containers = 1
    /\ upload = FALSE
    /\ args = <<>>
    /\ st = NoUnits
    /\ scene = NoScenes
    /\ original_paths = NoScenes
    /\ rendered_files = NoFiles
    /\ scratch = {}
    /\ results = <<>>
    /\ idx = 1
    /\ processed = <<>>
    /\ local = {}
    /\ report = <<>>

trackerFrame == <<pc, graph, volume, prepared, render_type, frame, start, end,
                  max_containers, upload, args, results, idx, processed,
                  local, report>>

\* update_asset (lines 84-89)
UpdateAsset(path, file_hash, modified_time) ==
    /\ conn = "open"
    /\ Len(log) < MaxOps
    /\ assets' = InsertOrReplace(assets, path, file_hash, modified_time)
    /\ log' = Append(log, [path |-> path, hash |-> file_hash,
                           last_modified |-> modified_time])
    /\ UNCHANGED <<lookup, conn, trackerFrame, workerVars>>

\* get_asset_hash (lines 79-82)
GetAssetHash(path) ==
    /\ conn = "open"
    /\ lookup' = <<path, SelectHash(assets, path), Len(log)>>
    /\ UNCHANGED <<assets, log, conn, trackerFrame, workerVars>>

\* close (lines 91-92)
CloseTracker ==
    /\ conn = "open"
    /\ conn' = "closed"
    /\ UNCHANGED <<assets, log, lookup, trackerFrame, workerVars>>

TrackerNext ==
    \/ \E p \in AssetPaths, h \in AssetHashes, t \in AssetTimes :
         UpdateAsset(p, h, t)
    \/ \E p \in AssetPaths : GetAssetHash(p)
    \/ CloseTracker

TrackerSpec == TrackerInit /\ [][TrackerNext]_vars

\* the update_asset calls for path among the first n calls of the log
UpdatesOf(path, n) == {k \in 1..n : log[k].path = path}

\* the last of them
LastUpdate(path, n) ==
    log[CHOOSE k \in UpdatesOf(path, n) : \A m \in UpdatesOf(path, n) : m <= k]

\* C9: AssetTracker upsert.  After any sequence of update_asset calls the
\* table holds at most one row per path; a path never recorded has no row
\* and get_asset_hash gives None for it; a recorded path has exactly the
\* row of its most recent update_asset call, whatever was recorded for other
\* paths since, and get_asset_hash gives the hash of that call.
C9_TrackerUpsert ==
    /\ \A r1, r2 \in assets : r1.path = r2.path => r1 = r2
    /\ \A p \in AssetPaths :
         IF UpdatesOf(p, Len(log)) = {}
         THEN /\ ~ \E r \in assets : r.path = p
              /\ SelectHash(assets, p) = "None"
         ELSE /\ LastUpdate(p, Len(log)) \in assets
              /\ SelectHash(assets, p) = LastUpdate(p, Len(log)).hash
    /\ lookup # <<>> =>
         lookup[2] = IF UpdatesOf(lookup[1], lookup[3]) = {} THEN "None"
                     ELSE LastUpdate(lookup[1], lookup[3]).hash

\* C9 witness: a path was recorded twice with different hashes, another
\* path was recorded in between, and get_asset_hash has answered with the
\* second hash
C9_Witness ==
    /\ Len(log) = 3
    /\ log[1].path = log[3].path
    /\ log[1].hash # log[3].hash
    /\ log[2].path # log[1].path
    /\ lookup = <<log[3].path, log[3].hash, 3>>

\* ------------------------------------------------ claims on the upload
\* C11: upload is non-fatal.  When upload is requested, the reconcile loop
\* is never aborted: execute is not CANCELLED once reconciliation has begun,
\* and when it has ended every result was handed to the reconciler and every
\* produced file of every result has its local copy.
C11_UploadNonFatal ==
    upload =>
      /\ processed # <<>> => pc # "cancelled"
      /\ (Ended /\ results # <<>>) =>
           \A n \in 1..Len(results) :
             /\ results[n].frame \in Handed
             /\ \A rel \in results[n].files : \E x \in local : x.from = rel

\* ------------------------------------------------ claims on the report
\* the counts <<succeeded, failed>> a report entry can be read to state:
\* the closing INFO message stands for "all succeeded, none failed", an
\* ERROR message states no count
CountsIn(entry) ==
    IF entry = <<"INFO", "all frames saved">> THEN <<Len(args), 0>>
    ELSE IF entry = <<"INFO", "frame saved">> THEN <<1, 0>>
    ELSE <<>>

RenderedUnits == {i \in 1..Len(args) : st[i] = "returned"}
FailedUnits == {i \in 1..Len(args) : st[i] = "failed"}

\* C12: batch summary.  When a dispatched batch has ended, the report holds
\* an entry stating the number of frames that succeeded and the number that
\* failed, and the two counts sum to the number of frames dispatched.
C12_BatchSummary ==
    (Ended /\ WasDispatched) =>
      \E n \in 1..Len(report) :
        LET c == CountsIn(report[n])
        IN /\ c # <<>>
           /\ c[1] = Cardinality(RenderedUnits)
           /\ c[2] = Cardinality(FailedUnits)
           /\ c[1] + c[2] = Len(args)

\* ------------------------------------- the reconcile loop over a batch
\* the scratch directory after the invocations of frames[1..k] rendered one
\* after the other (line 191 of each), every one on its own redirected copy
\* of the prepared scene
RECURSIVE ScratchAfter(_, _, _)
ScratchAfter(nodes, frames, k) ==
    IF k = 0 THEN {}
    ELSE RenderInto(ScratchAfter(nodes, frames, k - 1),
                    Redirect(nodes).nodes, frames[k])

\* the orders in which n results can arrive
Orders(n) ==
    {p \in [1..n -> 1..n] : \A a, b \in 1..n : p[a] = p[b] => a = b}

\* lines 409-410: the loop over results from result k on, with the local
\* files it leaves; the loop ends where _process_rendered_files raises
RECURSIVE ProcessAll(_, _, _, _, _)
ProcessAll(rs, k, upload_flag, loc, dir) ==
    IF k > Len(rs) THEN {loc}
    ELSE UNION { IF out.raised THEN {out.local}
                 ELSE ProcessAll(rs, k + 1, upload_flag, out.local, dir)
                 : out \in ProcessRenderedFiles(rs[k], upload_flag, loc, dir) }

\* The state in which map has returned the results of a batch of two or
\* three frames that rendered one after the other, the results taken in any
\* order of arrival.
BatchInit ==
    /\ pc = "reconcile"
    /\ graph \in Graphs \ {<<>>}
    /\ volume = graph
    /\ prepared = TRUE
    /\ render_type = "RANGE" /\ frame = 0
    /\ start \in Frames /\ end \in Frames /\ start < end
    /\ args = FrameRange(start, end)
    /\ st = [i \in Units |-> IF i <= Len(args) THEN "returned" ELSE "none"]
    /\ max_containers = 1
    /\ upload \in BOOLEAN
    /\ scene = [i \in Units |-> IF i <= Len(args) THEN graph ELSE <<>>]
    /\ original_paths =
         [i \in Units |-> IF i <= Len(args) THEN Redirect(graph).original_paths
                          ELSE <<>>]
    /\ rendered_files =
         [i \in Units |-> IF i <= Len(args)
                          THEN Collect(ScratchAfter(graph, args, i)) ELSE {}]
    /\ scratch = ScratchAfter(graph, args, Len(args))
    /\ \E p \in Orders(Len(args)) :
         results = [n \in 1..Len(args) |-> ResultOf(p[n])]
    /\ idx = 1
    /\ processed = <<>>
    /\ local = {}
    /\ report = << <<"INFO", "starting">> >>
    /\ conn = "open"
    /\ TrackerIdle

BatchSpec == BatchInit /\ [][ReconcileNext]_vars

\* the results in the order of args
InArgsOrder == [i \in 1..Len(args) |-> ResultOf(i)]

\* C13: reconciliation is order-independent.  Whatever the order in which
\* the results of a batch are processed, when the loop has ended the final
\* paths written and the content stored at each of them are what processing
\* the same results in the order of the frames leaves.
C13_OrderIndependent ==
    Ended => local \in ProcessAll(InArgsOrder, 1, upload, {}, scratch)

\* ------------------------------------- claims on concurrent invocations
\* C14: graph mutation is worker-local.  In every interleaving, the
\* original_paths snapshot of every invocation that has started holds, node
\* by node and slot by slot, the base path and the slot paths of the
\* prepared scene, and never the scratch directory.
C14_WorkerLocalGraph ==
    \A i \in Units :
      Started(i) =>
        /\ DOMAIN original_paths[i] = 0..(Len(volume) - 1)
        /\ \A k \in 1..Len(volume) :
             /\ original_paths[i][k - 1].base_path = volume[k].base_path
             /\ original_paths[i][k - 1].base_path # temp_output_dir
             /\ [j \in 1..Len(original_paths[i][k - 1].file_slots) |->
                   original_paths[i][k - 1].file_slots[j].path]
                  = PathsOf(volume)[k].slot_paths

\* C14 witness: an invocation took its snapshot while another invocation of
\* the same batch had the base paths of its scene at the scratch directory
C14_Witness ==
    \E i, j \in Units :
      /\ i # j
      /\ st[i] = "redirected" /\ st[j] = "redirected"
      /\ Len(volume) = 2
      /\ \A k \in 1..Len(scene[i]) : scene[i][k].base_path = temp_output_dir

\* C15: the caller blocks on the full batch.  When execute has returned,
\* FINISHED or CANCELLED, every frame of the batch has resolved or failed:
\* none is still queued, none is in flight or was dropped in flight.
C15_CallerBlocksOnBatch ==
    Ended =>
      \A i \in 1..Len(args) : st[i] \in {"returned", "failed"}

\* C16: redirect changes only base paths.  Between the redirect loop and
\* the restore loop of an invocation, its scene has the nodes of the opened
\* file in the same number and order, every base_path at the scratch
\* directory, every slot with the path and format it had; the snapshot has
\* one entry per node index, holding the base path the node had before the
\* loop touched it and one entry per slot index with the slot's path.
C16_RedirectOnlyBasePaths ==
    \A i \in Units :
      st[i] \in {"redirected", "rendered", "failed"} =>
        /\ Len(scene[i]) = Len(volume)
        /\ DOMAIN original_paths[i] = 0..(Len(volume) - 1)
        /\ \A k \in 1..Len(volume) :
             /\ scene[i][k].base_path = temp_output_dir
             /\ scene[i][k].file_slots = volume[k].file_slots
             /\ original_paths[i][k - 1].base_path = volume[k].base_path
             /\ Len(original_paths[i][k - 1].file_slots)
                  = Len(volume[k].file_slots)
             /\ \A j \in 1..Len(volume[k].file_slots) :
                  original_paths[i][k - 1].file_slots[j].path
                    = volume[k].file_slots[j].path

\* C16 witness: the redirect loop has run over two nodes of different base
\* paths and different slots, and the render step has not returned yet
C16_Witness ==
    \E i \in Units :
      /\ st[i] = "redirected"
      /\ Len(volume) = 2
      /\ volume[1].base_path # volume[2].base_path
      /\ Len(volume[1].file_slots) = 1 /\ Len(volume[2].file_slots) = 1
      /\ volume[1].file_slots # volume[2].file_slots
      /\ scene[i][1].base_path = temp_output_dir

\* ------------------------------------------- claims on the tie-break
\* the (node, slot) pairs of a snapshot whose slot path, substituted as
\* line 445 does, has the basename of the produced file
CodeMatches(rel, r) ==
    {p \in UNION { {<<k, j>> : j \in 1..Len(r.original_paths[k].file_slots)}
                   : k \in DOMAIN r.original_paths } :
       Basename(rel) = Basename(SlotPath(
                         r.original_paths[p[1]].file_slots[p[2]].path,
                         r.frame))}

\* the first pair: nodes by index, then slots by index within the node
FirstPair(S) ==
    CHOOSE p \in S :
      \A q \in S : p[1] < q[1] \/ (p[1] = q[1] /\ p[2] <= q[2])

\* join(base_path of the pair's node, substituted path of the pair's slot)
PairPath(r, p) ==
    PathJoin(r.original_paths[p[1]].base_path,
             SlotPath(r.original_paths[p[1]].file_slots[p[2]].path, r.frame))

\* C17: first-match tie-break.  Every file the reconciler has written whose
\* basename is the substituted basename of one or more (node, slot) pairs of
\* the snapshot is stored at the path built from the first such pair, nodes
\* by index and then slots by index; a later matching pair never decides.
C17_FirstMatchWins ==
    \A n \in Reconciled :
      \A x \in local :
        (x.from \in results[n].files
           /\ CodeMatches(x.from, results[n]) # {})
          => x.path = PairPath(results[n],
                               FirstPair(CodeMatches(x.from, results[n])))

\* C17 witness: a written file matched slots of two nodes, the pairs giving
\* different paths, and both slots of the node of the first pair
C17_Witness ==
    \E n \in Reconciled :
      \E x \in local :
        LET m == CodeMatches(x.from, results[n])
        IN /\ x.from \in results[n].files
           /\ \E p, q \in m :
                /\ p[1] < q[1]
                /\ PairPath(results[n], p) # PairPath(results[n], q)
           /\ \E q \in m :
                /\ FirstPair(m)[1] = q[1] /\ FirstPair(m)[2] < q[2]
                /\ PairPath(results[n], FirstPair(m)) # PairPath(results[n], q)

\* ------------------------------------------ claims on collected output
\* the file names the render of unit i's frame writes, one per slot
OwnFiles(i) ==
    UNION { {EngineFileName(volume[k].file_slots[j].path, args[i])
               : j \in 1..Len(volume[k].file_slots)}
            : k \in 1..Len(volume) }

\* C18: per-frame isolation of collected output.  The files mapping an
\* invocation returns holds only files its own render of its frame wrote,
\* and every file of a result returned to execute was rendered for the
\* frame of that result.
C18_PerFrameIsolation ==
    /\ \A i \in Units :
         st[i] = "returned" => rendered_files[i] \subseteq OwnFiles(i)
    /\ \A n \in 1..Len(results) :
         \A rel \in results[n].files :
           ReadBytes(scratch, rel)[1] = results[n].frame

====
